---------------------------- MODULE Spec2Model ----------------------------
(***************************************************************************)
(* Model of Creature3DLoader (src/src/modules/creature_3d_loader.py).      *)
(*                                                                         *)
(* The loader is synchronous and single threaded: every public method is   *)
(* one atomic action.  The collaborators (ModelLoader, ARScene, Anchor,    *)
(* the Model3D handle, the file system) are outside the module; each call  *)
(* to one of them may return normally or raise, so every method of the     *)
(* loader is an operator that yields the SET of computations the call can  *)
(* end in.  A computation carries the scene, the handle materialized so    *)
(* far, the log of collaborator calls, a pending exception and the value   *)
(* returned.                                                               *)
(*                                                                         *)
(* Scales are in tenths (0.8 is 8), Python's None is the empty tuple and   *)
(* a present optional value x is <<x>>.                                    *)
(***************************************************************************)
EXTENDS Integers, Sequences, FiniteSets, TLC

VARIABLES
    scene,        \* ARScene: the set of handle ids registered in the scene
    next_handle,  \* id the ModelLoader gives to the next handle it makes
    model_caps,   \* optional methods the SDK's Model3D class has (hasattr)
    loads,        \* number of calls of load_creature so far
    last          \* record of the most recent call into the loader

vars == <<scene, next_handle, model_caps, loads, last>>

-----------------------------------------------------------------------------
(* Bounds *)

\* number of calls of load_creature in one behaviour
MaxLoads == 1

-----------------------------------------------------------------------------
(* Values *)

None == <<>>

Some(x) == <<x>>

Vector3(x, y, z) == <<x, y, z>>

Quaternion_identity == "identity"

ARResult_SUCCESS == "SUCCESS"

\* a status of ARScene.add_object other than SUCCESS
ARResult_ERROR == "ERROR"

\* Python truthiness of an Optional[float]: None and 0.0 are false
TruthyNumber(opt) == opt # None /\ opt[1] # 0

\* Python truthiness of an Optional[str]: None and "" are false
TruthyString(opt) == opt # None /\ opt[1] # ""

\* objects put in the scene by other parts of the application
OtherObjects == {0}

\* the optional Model3D methods that the loader probes with hasattr
OptionalMethods == {"set_animation", "enable_shadows"}

\* arguments the callers pass
UnknownIds == {"unknown"}

SpawnPositions == {Vector3(0, 0, -2)}

CustomScales == {None, Some(0), Some(15)}

CustomAnimations == {None, Some("run")}

-----------------------------------------------------------------------------
(* Creature3DLoader.__init__ *)

base_asset_path == "assets/models"

\* a model path is <<stem, suffix>>: "dragon.glb" is <<"dragon", "glb">>
CreatureConfig(id, path, scale, animation, rare, collider) ==
    [creature_id |-> id, model_path |-> path, default_scale |-> scale,
     default_animation |-> animation, is_rare |-> rare,
     shadow_enabled |-> TRUE, collider_size |-> collider]

creature_configs ==
    [id \in {"dragon", "pikachu", "cat", "wolf"} |->
        CASE id = "dragon" ->
               CreatureConfig("dragon", <<"dragon", "glb">>, 8, "idle", TRUE,
                              Vector3(12, 12, 12))
          [] id = "pikachu" ->
               CreatureConfig("pikachu", <<"pikachu", "glb">>, 4, "idle", FALSE,
                              Vector3(8, 8, 8))
          [] id = "cat" ->
               CreatureConfig("cat", <<"cat", "glb">>, 3, "sit", FALSE,
                              Vector3(6, 6, 6))
          [] id = "wolf" ->
               CreatureConfig("wolf", <<"wolf", "glb">>, 6, "howl", TRUE,
                              Vector3(10, 10, 10))]

fallback_model == <<"fallback_cube", "glb">>

CreatureIds == DOMAIN creature_configs \cup UnknownIds

\* os.path.join(base_asset_path, model_path): <<directory, stem, suffix>>
get_model_full_path(model_path) == <<base_asset_path>> \o model_path

-----------------------------------------------------------------------------
(* Computations *)

\* the computation a public method starts in
Start(objects) ==
    [scene |-> objects, model |-> None, log |-> <<>>, exc |-> FALSE,
     ret |-> None, returned |-> None]

\* the collaborator call fn(arg) was made and ended in out
Logged(c, fn, arg, out) ==
    [c EXCEPT !.log = Append(@, [fn |-> fn, arg |-> arg, out |-> out])]

\* the collaborator call fn(arg) raised
Raised(c, fn, arg) == [Logged(c, fn, arg, "raise") EXCEPT !.exc = TRUE]

\* an except clause took the pending exception
Caught(c) == [c EXCEPT !.exc = FALSE]

\* the method returns value
Return(c, value) == [c EXCEPT !.returned = value]

\* the handle of the computation
M(c) == c.model[1]

hasattr(model, name) == name \in model.caps

\* os.path.exists(path): the file is there or it is not; the answer is left
\* in c.ret
exists(c, path) ==
    { [Logged(c, "exists", path, "True") EXCEPT !.ret = Some(TRUE)],
      [Logged(c, "exists", path, "False") EXCEPT !.ret = Some(FALSE)] }

\* str.endswith on a path <<directory, stem, suffix>>
endswith(file_path, suffix) == file_path[3] = suffix

\* the answer of verify_model_file is left in c.ret
verify_model_file(c, file_path) ==
    { IF x.ret = Some(FALSE) THEN [x EXCEPT !.ret = Some(FALSE)]
      ELSE IF ~endswith(file_path, "glb") THEN [x EXCEPT !.ret = Some(FALSE)]
      ELSE [x EXCEPT !.ret = Some(TRUE)]
      : x \in exists(c, file_path) }


-----------------------------------------------------------------------------
(* Collaborators: each call returns the set of computations it can end in *)

\* a handle as the ModelLoader makes it, before any mutator has run
Model3D(id, path) ==
    [id |-> id, asset |-> path, caps |-> model_caps,
     position |-> Vector3(0, 0, 0), rotation |-> "unset",
     scale |-> Vector3(10, 10, 10), color |-> None, anchor |-> None,
     animation |-> None, shadows |-> FALSE, collider |-> None]

\* ModelLoader.load_glb(path): a new handle, or a decode failure
load_glb(c, path) ==
    { [Logged(c, "load_glb", path, "ok")
          EXCEPT !.model = Some(Model3D(next_handle, path))],
      Raised(c, "load_glb", path) }

set_position(c, position) ==
    { [Logged(c, "set_position", <<>>, "ok")
          EXCEPT !.model = Some([M(c) EXCEPT !.position = position])],
      Raised(c, "set_position", <<>>) }

set_rotation(c, rotation) ==
    { [Logged(c, "set_rotation", <<>>, "ok")
          EXCEPT !.model = Some([M(c) EXCEPT !.rotation = rotation])],
      Raised(c, "set_rotation", <<>>) }

set_scale(c, scale) ==
    { [Logged(c, "set_scale", <<>>, "ok")
          EXCEPT !.model = Some([M(c) EXCEPT !.scale = scale])],
      Raised(c, "set_scale", <<>>) }

set_color(c, r, g, b) ==
    { [Logged(c, "set_color", <<>>, "ok")
          EXCEPT !.model = Some([M(c) EXCEPT !.color = Some(<<r, g, b>>)])],
      Raised(c, "set_color", <<>>) }

\* Anchor.create_ground_anchor(position): the anchor is left in c.ret
create_ground_anchor(c, position) ==
    { [Logged(c, "create_ground_anchor", <<>>, "ok")
          EXCEPT !.ret = Some(position)],
      Raised(c, "create_ground_anchor", <<>>) }

set_anchor(c, anchor) ==
    { [Logged(c, "set_anchor", <<>>, "ok")
          EXCEPT !.model = Some([M(c) EXCEPT !.anchor = anchor])],
      Raised(c, "set_anchor", <<>>) }

set_animation(c, animation) ==
    { [Logged(c, "set_animation", <<>>, "ok")
          EXCEPT !.model = Some([M(c) EXCEPT !.animation = Some(animation)])],
      Raised(c, "set_animation", <<>>) }

enable_shadows(c) ==
    { [Logged(c, "enable_shadows", <<>>, "ok")
          EXCEPT !.model = Some([M(c) EXCEPT !.shadows = TRUE])],
      Raised(c, "enable_shadows", <<>>) }

set_collider(c, shape, size) ==
    { [Logged(c, "set_collider", <<>>, "ok")
          EXCEPT !.model = Some([M(c) EXCEPT !.collider = Some(<<shape, size>>)])],
      Raised(c, "set_collider", <<>>) }

\* ARScene.add_object(model): registers the handle and returns SUCCESS,
\* returns another status and registers nothing, or raises; the status is
\* left in c.ret
add_object(c, id) ==
    { [Logged(c, "add_object", <<id>>, ARResult_SUCCESS)
          EXCEPT !.scene = @ \cup {id}, !.ret = Some(ARResult_SUCCESS)],
      [Logged(c, "add_object", <<id>>, ARResult_ERROR)
          EXCEPT !.ret = Some(ARResult_ERROR)],
      Raised(c, "add_object", <<id>>) }

\* ARScene.remove_object(model): takes the handle out of the scene (nothing
\* to do when it is not there), or raises and leaves the scene as it was
remove_object(c, id) ==
    { [Logged(c, "remove_object", <<id>>, "ok") EXCEPT !.scene = @ \ {id}],
      Raised(c, "remove_object", <<id>>) }

-----------------------------------------------------------------------------
(* Creature3DLoader *)

\* _configure_model, the try block that binds the handle to the ground
BindGroundAnchor(c, spawn_position) ==
    UNION { IF a.exc THEN {Caught(a)}
            ELSE { Caught(b) : b \in set_anchor(a, a.ret) }
            : a \in create_ground_anchor(c, spawn_position) }

\* _configure_model, the initial animation
SetInitialAnimation(c, config, custom_animation) ==
    LET animation == IF TruthyString(custom_animation)
                     THEN custom_animation[1]
                     ELSE config.default_animation
    IN  IF hasattr(M(c), "set_animation") /\ animation # ""
        THEN { Caught(a) : a \in set_animation(c, animation) }
        ELSE {c}

\* _configure_model, the scale given to the handle
ConfiguredScale(config, custom_scale) ==
    IF TruthyNumber(custom_scale) THEN custom_scale[1]
    ELSE config.default_scale

\* mutant: the handle is left where the ModelLoader made it
SetTransform_no_position(c, config, spawn_position, custom_scale) ==
    LET scale == ConfiguredScale(config, custom_scale)
        s2 == set_rotation(c, Quaternion_identity)
    IN  UNION { IF x.exc THEN {x}
                ELSE set_scale(x, Vector3(scale, scale, scale)) : x \in s2 }

\* _configure_model, position, rotation and scale: none of the three calls
\* is inside a try block
SetTransform(c, config, spawn_position, custom_scale) ==
    LET scale == ConfiguredScale(config, custom_scale)
        s1 == set_position(c, spawn_position)
        s2 == UNION { IF x.exc THEN {x}
                      ELSE set_rotation(x, Quaternion_identity) : x \in s1 }
    IN  UNION { IF x.exc THEN {x}
                ELSE set_scale(x, Vector3(scale, scale, scale)) : x \in s2 }

_configure_model(c, config, spawn_position, custom_scale, custom_animation) ==
    LET s3 == SetTransform(c, config, spawn_position, custom_scale)
        s4 == UNION { IF x.exc THEN {x}
                      ELSE BindGroundAnchor(x, spawn_position) : x \in s3 }
    IN  UNION { IF x.exc THEN {x}
                ELSE SetInitialAnimation(x, config, custom_animation)
                : x \in s4 }

\* _post_load_setup, the try block that sets the collider
SetCollider(c, config) ==
    { Caught(x) : x \in set_collider(c, "box", config.collider_size) }

_post_load_setup(c, config) ==
    LET s1 == IF config.shadow_enabled /\ hasattr(M(c), "enable_shadows")
              THEN enable_shadows(c)
              ELSE {c}
    IN  UNION { IF x.exc THEN {x} ELSE SetCollider(x, config) : x \in s1 }

\* mutant: the fallback keeps the scale a CreatureConfig defaults to
FallbackScale_config_default == Vector3(5, 5, 5)

\* the reduced scale of the fallback model
FallbackScale == Vector3(3, 3, 3)

\* the red tint of the fallback model
FallbackColor == <<10, 0, 0>>

\* _load_fallback_model once the fallback file was found
LoadFallback(c, fallback_path, spawn_position) ==
    LET s1 == load_glb(c, fallback_path)
        s2 == UNION { IF x.exc THEN {x}
                      ELSE set_position(x, spawn_position) : x \in s1 }
        s3 == UNION { IF x.exc THEN {x}
                      ELSE set_scale(x, FallbackScale) : x \in s2 }
        s4 == UNION { IF x.exc THEN {x}
                      ELSE set_color(x, FallbackColor[1], FallbackColor[2],
                                     FallbackColor[3]) : x \in s3 }
        s5 == UNION { IF x.exc THEN {x}
                      ELSE add_object(x, M(x).id) : x \in s4 }
    IN  { IF x.exc THEN Return(Caught(x), None)
          ELSE Return(x, Some(M(x).id)) : x \in s5 }

\* mutant: the answer of os.path.exists is not looked at
_load_fallback_model_unchecked(c, spawn_position) ==
    LET fallback_path == get_model_full_path(fallback_model)
    IN  UNION { LoadFallback(e, fallback_path, spawn_position)
                : e \in exists(c, fallback_path) }

_load_fallback_model(c, spawn_position) ==
    LET fallback_path == get_model_full_path(fallback_model)
    IN  UNION { IF e.ret = Some(FALSE) THEN {Return(e, None)}
                ELSE LoadFallback(e, fallback_path, spawn_position)
                : e \in exists(c, fallback_path) }

\* mutant: the post-load setup runs whatever add_object answered
AddToScene_setup_always(c, config) ==
    UNION { IF a.exc THEN {Return(Caught(a), None)}
            ELSE { IF p.exc \/ a.ret # Some(ARResult_SUCCESS)
                   THEN Return(Caught(p), None)
                   ELSE Return(p, Some(M(p).id))
                   : p \in _post_load_setup(a, config) }
            : a \in add_object(c, M(c).id) }

\* load_creature, step 6: the try block that adds the handle to the scene
AddToScene(c, config) ==
    UNION { IF a.exc THEN {Return(Caught(a), None)}
            ELSE IF a.ret = Some(ARResult_SUCCESS)
            THEN { IF p.exc THEN Return(Caught(p), None)
                   ELSE Return(p, Some(M(p).id))
                   : p \in _post_load_setup(a, config) }
            ELSE {Return(a, None)}
            : a \in add_object(c, M(c).id) }

\* load_creature, steps 4 to 6, for a creature whose file verified
LoadVerified(c, config, model_path, spawn_position, custom_scale, custom_animation) ==
    UNION { IF m.exc
            THEN _load_fallback_model(Caught(m), spawn_position)
            ELSE UNION { IF x.exc THEN {x} ELSE AddToScene(x, config)
                         : x \in _configure_model(m, config, spawn_position,
                                                  custom_scale,
                                                  custom_animation) }
            : m \in load_glb(c, model_path) }

\* the computations load_creature can end in; exc is TRUE in those that
\* raise to the caller
load_creature(c, creature_id, spawn_position, custom_scale, custom_animation) ==
    IF creature_id \notin DOMAIN creature_configs
    THEN _load_fallback_model(c, spawn_position)
    ELSE LET config == creature_configs[creature_id]
             model_path == get_model_full_path(config.model_path)
         IN  UNION { IF v.ret = Some(FALSE)
                     THEN _load_fallback_model(v, spawn_position)
                     ELSE LoadVerified(v, config, model_path, spawn_position,
                                       custom_scale, custom_animation)
                     : v \in verify_model_file(c, model_path) }

\* mutant: remove_object is called outside a try block
unload_creature_unguarded(c, id) ==
    { Return(x, None) : x \in remove_object(c, id) }

\* the computations unload_creature can end in
unload_creature(c, id) ==
    { Return(Caught(x), None) : x \in remove_object(c, id) }

get_creature_config(creature_id) ==
    IF creature_id \in DOMAIN creature_configs
    THEN Some(creature_configs[creature_id])
    ELSE None

list_available_creatures == DOMAIN creature_configs

-----------------------------------------------------------------------------
(* The state machine *)

\* the record of a call: its arguments, the scene before it, the
\* computation it ended in
Call(op, creature_id, spawn_position, custom_scale, custom_animation, target, c) ==
    [op |-> op, creature_id |-> creature_id,
     spawn_position |-> spawn_position, custom_scale |-> custom_scale,
     custom_animation |-> custom_animation, target |-> target,
     before |-> scene, model |-> c.model, log |-> c.log,
     raised |-> c.exc, returned |-> c.returned]

Init ==
    /\ scene = OtherObjects
    /\ next_handle = 1
    /\ model_caps \in SUBSET OptionalMethods
    /\ loads = 0
    /\ last = Call("init", "", Vector3(0, 0, 0), None, None, None,
                   Start(scene))

LoadCreature ==
    /\ loads < MaxLoads
    /\ \E creature_id \in CreatureIds, spawn_position \in SpawnPositions,
          custom_scale \in CustomScales, custom_animation \in CustomAnimations :
       \E c \in load_creature(Start(scene), creature_id, spawn_position,
                              custom_scale, custom_animation) :
          /\ scene' = c.scene
          /\ next_handle' = IF c.model = None THEN next_handle
                            ELSE next_handle + 1
          /\ loads' = loads + 1
          /\ last' = Call("load_creature", creature_id, spawn_position,
                          custom_scale, custom_animation, None, c)
          /\ UNCHANGED model_caps

UnloadCreature ==
    \E id \in OtherObjects \cup (1 .. next_handle - 1) :
    \E c \in unload_creature(Start(scene), id) :
       /\ scene' = c.scene
       /\ last' = Call("unload_creature", "", Vector3(0, 0, 0), None, None,
                       Some(id), c)
       /\ UNCHANGED <<next_handle, model_caps, loads>>

Next == LoadCreature \/ UnloadCreature

Spec == Init /\ [][Next]_vars

-----------------------------------------------------------------------------
(* What the record of the last call says *)

IsLoad == last.op = "load_creature"

IsUnload == last.op = "unload_creature"

Known == last.creature_id \in DOMAIN creature_configs

PrimaryPath ==
    get_model_full_path(creature_configs[last.creature_id].model_path)

FallbackPath == get_model_full_path(fallback_model)

\* the places in the log of the calls of fn
CallsOf(fn) == { i \in DOMAIN last.log : last.log[i].fn = fn }

\* fn was called on arg and ended in out
Did(fn, arg, out) ==
    \E i \in CallsOf(fn) : last.log[i].arg = arg /\ last.log[i].out = out

\* fn was called and ended in out
Ended(fn, out) == \E i \in CallsOf(fn) : last.log[i].out = out

\* the collaborator calls that raised
Raisers == { last.log[i].fn : i \in { j \in DOMAIN last.log :
                                       last.log[j].out = "raise" } }

HandleMutators ==
    {"set_position", "set_rotation", "set_scale", "set_anchor",
     "set_animation", "enable_shadows", "set_collider", "set_color"}

BestEffortSteps ==
    {"create_ground_anchor", "set_anchor", "set_animation", "enable_shadows",
     "set_collider"}

\* the handle the call materialized
Handle == last.model[1]

\* the call materialized the creature's own asset
MaterializedOwn ==
    IsLoad /\ Known /\ Did("load_glb", PrimaryPath, "ok")

\* the call entered _load_fallback_model
FallbackEntered == IsLoad /\ \E i \in CallsOf("exists") :
                                 last.log[i].arg = FallbackPath

ReturnedHandle ==
    ~last.raised /\ last.model # None /\ last.returned = Some(Handle.id)

ReturnedNone == ~last.raised /\ last.returned = None

-----------------------------------------------------------------------------
(* C1 *)

C1_Case ==
    /\ IsLoad /\ Known
    /\ Did("exists", PrimaryPath, "True") /\ endswith(PrimaryPath, "glb")
    /\ Did("load_glb", PrimaryPath, "ok")
    /\ Raisers \cap HandleMutators = {}
    /\ Ended("add_object", ARResult_SUCCESS)

\* C1: for a known creature whose .glb file exists and is materialized, with
\* no handle mutator failing and add_object answering SUCCESS, load_creature
\* returns the materialized handle, add_object was called exactly once and
\* with that handle, the handle is at the spawn position and the fallback
\* asset was never materialized.
C1_KnownCreatureLoaded ==
    C1_Case =>
        /\ ReturnedHandle
        /\ Cardinality(CallsOf("add_object")) = 1
        /\ \A i \in CallsOf("add_object") : last.log[i].arg = <<Handle.id>>
        /\ Handle.id \in scene
        /\ Handle.position = last.spawn_position
        /\ Handle.asset = PrimaryPath
        /\ \A i \in CallsOf("load_glb") : last.log[i].arg # FallbackPath

C1_Witness ==
    /\ C1_Case
    /\ last.creature_id = "wolf"
    /\ Ended("create_ground_anchor", "raise")
    /\ ReturnedHandle

-----------------------------------------------------------------------------
(* C2 *)

C2_FallbackResult ==
    /\ ReturnedHandle
    /\ Handle.asset = FallbackPath
    /\ Handle.id \in scene
    /\ Handle.position = last.spawn_position
    /\ Handle.scale = Vector3(3, 3, 3)
    /\ Handle.color = Some(<<10, 0, 0>>)

C2_Case ==
    /\ IsLoad /\ ~Known
    /\ Did("exists", FallbackPath, "True")
    /\ Did("load_glb", FallbackPath, "ok")
    /\ Raisers = {}
    /\ Ended("add_object", ARResult_SUCCESS)

-----------------------------------------------------------------------------
(* C3 *)

\* C3: for a known creature whose asset verifies, is materialized and is
\* added to the scene with SUCCESS, load_creature returns the materialized
\* handle whichever of the best-effort steps (ground anchor, set_animation,
\* enable_shadows, set_collider) raise.
C3_BestEffortNonFatal ==
    ( /\ MaterializedOwn
      /\ Did("exists", PrimaryPath, "True")
      /\ Ended("add_object", ARResult_SUCCESS)
      /\ Raisers \subseteq BestEffortSteps )
        => ReturnedHandle

-----------------------------------------------------------------------------
(* C4 *)

C4_Case ==
    /\ MaterializedOwn
    /\ Ended("add_object", ARResult_ERROR) \/ Ended("add_object", "raise")

\* C4: when the creature's own asset was materialized and add_object answers
\* another status than SUCCESS or raises, load_creature returns None, neither
\* enable_shadows nor set_collider is called, and the fallback path is not
\* entered: the fallback asset is not looked for nor materialized and
\* add_object is called once.
C4_RegistrationFailureIsHard ==
    C4_Case =>
        /\ ReturnedNone
        /\ CallsOf("enable_shadows") = {}
        /\ CallsOf("set_collider") = {}
        /\ ~FallbackEntered
        /\ \A i \in CallsOf("load_glb") : last.log[i].arg # FallbackPath
        /\ Cardinality(CallsOf("add_object")) = 1
        /\ scene = last.before

C4_Witness ==
    /\ C4_Case
    /\ last.creature_id = "wolf"
    /\ Ended("add_object", ARResult_ERROR)
    /\ ReturnedNone

C4_WitnessRaise ==
    C4_Case /\ Ended("add_object", "raise") /\ ReturnedNone

-----------------------------------------------------------------------------
(* C5 *)

\* C5: whenever the fallback path is entered and the fallback asset is
\* missing, or its materialization fails, or a mutator on the fallback handle
\* fails, or add_object raises or answers another status than SUCCESS,
\* load_creature returns None.
C5_FallbackFailureGivesNone ==
    ( /\ FallbackEntered
      /\ \/ Did("exists", FallbackPath, "False")
         \/ Did("load_glb", FallbackPath, "raise")
         \/ Raisers \cap HandleMutators # {}
         \/ Ended("add_object", "raise")
         \/ Ended("add_object", ARResult_ERROR) )
        => ReturnedNone

-----------------------------------------------------------------------------
(* C6 *)

\* C6: load_creature and unload_creature end by returning a handle or None
\* and raise nothing to their caller, whichever collaborator calls raise.
C6_NothingPropagates == (IsLoad \/ IsUnload) => ~last.raised

-----------------------------------------------------------------------------
(* C7 *)

C7_Case == IsUnload /\ last.target[1] \in last.before

\* C7 as claimed: after unload_creature on a handle that is in the scene the
\* handle is not in the scene, the scene has one object less, every other
\* object is still there and nothing is raised, also when remove_object
\* fails.
C7_AsClaimed ==
    C7_Case =>
        /\ last.target[1] \notin scene
        /\ Cardinality(scene) = Cardinality(last.before) - 1
        /\ last.before \ {last.target[1]} \subseteq scene
        /\ ~last.raised

\* C7 amended: unload_creature on a handle that is in the scene raises
\* nothing to the caller; when remove_object does not fail the handle is not
\* in the scene afterwards, the scene has one object less and every other
\* object is still there; when remove_object fails the scene is as it was.
C7_UnloadRemoves ==
    C7_Case =>
        /\ ~last.raised
        /\ Ended("remove_object", "ok") =>
              /\ last.target[1] \notin scene
              /\ Cardinality(scene) = Cardinality(last.before) - 1
              /\ scene = last.before \ {last.target[1]}
        /\ Ended("remove_object", "raise") => scene = last.before

C7_Witness ==
    /\ C7_Case
    /\ Ended("remove_object", "ok")
    /\ last.target[1] # 0
    /\ 0 \in scene

C7_WitnessFailure ==
    C7_Case /\ Ended("remove_object", "raise") /\ ~last.raised

-----------------------------------------------------------------------------
(* C8 *)

C8_Case == IsLoad /\ ~Known /\ Did("exists", FallbackPath, "False")

\* C8: when the fallback file does not exist, load_creature for an identifier
\* outside the configuration table returns None, the ModelLoader is never
\* asked for a handle, add_object is never called and the scene is as it was.
C8_MissingFallbackGivesNone ==
    C8_Case =>
        /\ ReturnedNone
        /\ CallsOf("load_glb") = {}
        /\ CallsOf("add_object") = {}
        /\ last.model = None
        /\ scene = last.before

C8_Witness == C8_Case /\ ReturnedNone /\ last.creature_id = "unknown"

-----------------------------------------------------------------------------
(* C9 *)

\* C9: on the primary path the scale set on the handle is the override on
\* the three axes whenever the caller gives one, 0 included, and the
\* creature's default_scale only when no override is given.
C9_ScaleIsOverrideWhenGiven ==
    (MaterializedOwn /\ Ended("set_scale", "ok")) =>
        LET scale == IF last.custom_scale # None THEN last.custom_scale[1]
                     ELSE creature_configs[last.creature_id].default_scale
        IN  Handle.scale = Vector3(scale, scale, scale)

-----------------------------------------------------------------------------
(* C10 *)

\* C10: every call of load_creature returns a handle if and only if that
\* handle was added to the scene during the call; a call that returns None
\* leaves the scene as it was and a returned handle is in the scene.
C10_ReturnAgreesWithScene ==
    IsLoad =>
        /\ ~last.raised
        /\ last.returned # None <=>
              (last.model # None /\ Handle.id \in scene \ last.before)
        /\ last.returned = None => scene = last.before
        /\ last.returned # None => last.returned[1] \in scene

\* C10, its first half alone: a call that returns None left the scene as it
\* was
C10_NoneLeavesScene == (IsLoad /\ ReturnedNone) => scene = last.before

\* C10, its second half alone: a returned handle is in the scene
C10_ReturnedIsInScene ==
    (IsLoad /\ ~last.raised /\ last.returned # None)
        => last.returned[1] \in scene

=============================================================================
